---- MODULE Spec2Model ----
(***************************************************************************)
(* Model of the NEURO-OS backend: the interactive loop (main.py), the      *)
(* dispatcher (Dispatch.py), the responder Llama3Agent (Llama3_agent.py)   *)
(* and the streaming model gateway OllamaClient (ollama_client.py).        *)
(*                                                                         *)
(* Texts are sequences of one-character strings, so that strip, split,     *)
(* startswith, the command regex and the path functions are computed the   *)
(* way the Python code computes them.                                      *)
(***************************************************************************)
EXTENDS Integers, Sequences, FiniteSets, TLC

(***************************************************************************)
(* Bounds of the model.                                                    *)
(***************************************************************************)
MaxTurns == 2

(***************************************************************************)
(* Python string primitives.                                               *)
(***************************************************************************)
Whitespace == {" ", "\t", "\n"}

Drop(s, n) == SubSeq(s, n + 1, Len(s))

Take(s, n) == SubSeq(s, 1, n)

StartsWith(s, p) == Len(s) >= Len(p) /\ Take(s, Len(p)) = p

RECURSIVE LStrip(_)
LStrip(s) ==
  IF s # <<>> /\ Head(s) \in Whitespace THEN LStrip(Tail(s)) ELSE s

RECURSIVE RStrip(_)
RStrip(s) ==
  IF s # <<>> /\ s[Len(s)] \in Whitespace THEN RStrip(Take(s, Len(s) - 1)) ELSE s

Strip(s) == RStrip(LStrip(s))

\* Length of the longest prefix of s made of characters outside stop.
RECURSIVE SpanUntil(_, _)
SpanUntil(s, stop) ==
  IF s = <<>> \/ Head(s) \in stop THEN 0 ELSE 1 + SpanUntil(Tail(s), stop)

\* str.split(sep) for a one-character separator: always at least one piece.
RECURSIVE Split(_, _)
Split(s, sep) ==
  LET n == SpanUntil(s, {sep})
  IN  IF n = Len(s) THEN <<s>>
      ELSE <<Take(s, n)>> \o Split(Drop(s, n + 1), sep)

\* str.split(maxsplit=1): splits on runs of whitespace, at most two pieces.
SplitMax1(s) ==
  LET t == LStrip(s)
      n == SpanUntil(t, Whitespace)
      rest == RStrip(LStrip(Drop(t, n)))
  IN  IF t = <<>> THEN <<>>
      ELSE IF rest = <<>> THEN <<Take(t, n)>>
      ELSE <<Take(t, n), LStrip(Drop(t, n))>>

Contains(seq, x) == \E i \in 1..Len(seq) : seq[i] = x

RECURSIVE JoinWith(_, _)
JoinWith(parts, sep) ==
  IF parts = <<>> THEN <<>>
  ELSE IF Len(parts) = 1 THEN parts[1]
  ELSE parts[1] \o <<sep>> \o JoinWith(Tail(parts), sep)

(***************************************************************************)
(* os.path on POSIX.  A path text is a sequence of characters; a directory *)
(* of the file system is the sequence of its component names from the      *)
(* root (the root itself is <<>>).                                         *)
(***************************************************************************)
Slash == "/"

DotDot == <<".", ".">>

Dot == <<".">>

IsAbs(p) == StartsWith(p, <<Slash>>)

\* os.path.join(a, b)
PathJoin(a, b) ==
  IF IsAbs(b) THEN b
  ELSE IF a = <<>> \/ a[Len(a)] = Slash THEN a \o b
  ELSE a \o <<Slash>> \o b

\* The component loop of posixpath.normpath.
RECURSIVE NormComps(_, _, _)
NormComps(comps, acc, rooted) ==
  IF comps = <<>> THEN acc
  ELSE LET c == Head(comps)
       IN  IF c = <<>> \/ c = Dot THEN NormComps(Tail(comps), acc, rooted)
           ELSE IF c # DotDot
                   \/ (~rooted /\ acc = <<>>)
                   \/ (acc # <<>> /\ acc[Len(acc)] = DotDot)
                THEN NormComps(Tail(comps), Append(acc, c), rooted)
           ELSE IF acc # <<>>
                THEN NormComps(Tail(comps), Take(acc, Len(acc) - 1), rooted)
           ELSE NormComps(Tail(comps), acc, rooted)

\* posixpath.normpath(p): exactly two leading slashes are kept.
NormPath(p) ==
  LET slashes == IF ~IsAbs(p) THEN 0
                 ELSE IF StartsWith(p, <<Slash, Slash>>)
                         /\ ~StartsWith(p, <<Slash, Slash, Slash>>) THEN 2
                 ELSE 1
      body == JoinWith(NormComps(Split(p, Slash), <<>>, slashes > 0), Slash)
      lead == IF slashes = 2 THEN <<Slash, Slash>>
              ELSE IF slashes = 1 THEN <<Slash>> ELSE <<>>
  IN  IF p = <<>> THEN Dot
      ELSE IF lead \o body = <<>> THEN Dot
      ELSE lead \o body

\* os.getcwd() of the interpreter process: where the program was started.
ProcessCwd == <<Slash>>

\* os.path.abspath(p)
AbsPath(p) == NormPath(IF IsAbs(p) THEN p ELSE PathJoin(ProcessCwd, p))

NoEnt == <<<<"ENOENT">>>>

\* Path lookup as the kernel does it: from the directory given, component by
\* component, every directory walked through has to exist.
RECURSIVE Walk(_, _, _, _)
Walk(comps, at, ds, fs) ==
  IF at \notin ds THEN IF comps = <<>> /\ at \in fs THEN at ELSE NoEnt
  ELSE IF comps = <<>> THEN at
  ELSE LET c == Head(comps)
       IN  IF c = <<>> \/ c = Dot THEN Walk(Tail(comps), at, ds, fs)
           ELSE IF c = DotDot
                THEN Walk(Tail(comps), IF at = <<>> THEN at ELSE Take(at, Len(at) - 1), ds, fs)
           ELSE Walk(Tail(comps), Append(at, c), ds, fs)

\* The directory a path text names, or NoEnt.
Lookup(p, from, ds, fs) ==
  IF p = <<>> THEN NoEnt
  ELSE Walk(Split(p, Slash), IF IsAbs(p) THEN <<>> ELSE from, ds, fs)

\* os.path.exists(p) and os.path.isdir(p) for an absolute path text.
PathExists(p, ds, fs) == Lookup(p, <<>>, ds, fs) # NoEnt

PathIsDir(p, ds, fs) == Lookup(p, <<>>, ds, fs) \in ds

(***************************************************************************)
(* Python values: None and Optional.                                       *)
(***************************************************************************)
NoneVal == [isNone |-> TRUE, val |-> <<>>]

Some(v) == [isNone |-> FALSE, val |-> v]

(***************************************************************************)
(* The model gateway, OllamaClient.generate_text with stream=True.         *)
(*                                                                         *)
(* What the backend does in one call is a record                           *)
(*   [conn  |-> "ok" | "connect_error" | "http_error",                     *)
(*    lines |-> the lines response.iter_lines() delivers]                  *)
(* and a line is [kind |-> "json" | "bad" | "blank" | "fault", obj |-> o]: *)
(* a parseable JSON object o, a line json.loads rejects, an empty line, or *)
(* a transport fault raised by the iterator at that point.                 *)
(***************************************************************************)
JsonObj(keys, message, response, done) ==
  [keys |-> keys, message |-> message, response |-> response, done |-> done]

NoObj == JsonObj({}, <<>>, <<>>, FALSE)

\* OllamaClient._extract_content
extract_content(o) ==
  IF "message" \in o.keys THEN Some(o.message)
  ELSE IF "response" \in o.keys THEN Some(o.response)
  ELSE NoneVal

\* The for-loop over response.iter_lines() inside the generator: the chunks
\* it yields until it breaks on done, runs out of lines, or an exception
\* leaves the loop.
RECURSIVE IterLines(_)
IterLines(lines) ==
  IF lines = <<>> THEN <<>>
  ELSE LET l == Head(lines)
           content == extract_content(l.obj)
       IN  CASE l.kind = "blank" -> IterLines(Tail(lines))
             [] l.kind = "bad"   -> IterLines(Tail(lines))
             [] l.kind = "fault" -> <<>>
             [] OTHER ->
                  (IF content.isNone THEN <<>> ELSE <<content.val>>)
                  \o (IF "done" \in l.obj.keys /\ l.obj.done THEN <<>>
                      ELSE IterLines(Tail(lines)))

\* The body of generate_text, which runs when the generator is iterated.
\* Every except clause ends the generator (return inside a generator).
GeneratorBody(messages, net) ==
  IF messages = <<>> THEN <<>>
  ELSE IF net.conn = "connect_error" THEN <<>>
  ELSE IF net.conn = "http_error" THEN <<>>
  ELSE IterLines(net.lines)

\* The call generate_text(..., stream=True).  The function contains a yield,
\* so the call builds a generator object and runs none of the body: the
\* value returned to the caller is never None.
generate_text(messages, net) ==
  [isNone |-> FALSE, chunks |-> GeneratorBody(messages, net)]

(***************************************************************************)
(* Texts built by f-strings: the fixed wording, the text put into it and,  *)
(* where there is one, the number put into it.                             *)
(***************************************************************************)
Text(fmt, arg, n) == [fmt |-> fmt, arg |-> arg, n |-> n]

Raw(t) == Text("{}", t, 0)

Apology ==
  Text("I'm sorry, I'm having trouble connecting to the model right now. Please try again later.", <<>>, 0)

NoCommandMsg == Text("Error: No command provided for execution.", <<>>, 0)

SecurityAlertMsg ==
  Text("Security Alert: Command contains '..' and is not a permitted navigation/read command. Execution blocked.", <<>>, 0)

NotWhitelistedMsg(base) ==
  Text("Error: Command '{}' is not explicitly whitelisted for execution.", base, 0)

CommandOutputMsg(out) == Text("Command Output:\n[bash block: {}]", out, 0)

CommandErrorMsg(err) == Text("Command Error:\n[bash block: {}]", err, 0)

NoOutputMsg == Text("Command executed successfully with no output.", <<>>, 0)

CommandFailedMsg(code, err) ==
  Text("Command failed with exit code {n}:\nError Output:\n[bash block: {}]", err, code)

NotFoundMsg(base) == Text("Error: Command '{}' not found. Is it installed?", base, 0)

UnexpectedMsg(e) ==
  Text("An unexpected error occurred during command execution: {}", e, 0)

CdOkMsg(dir) == Text("Changed current working directory to: <{}>", dir, 0)

CdFailMsg(path) ==
  Text("Error: Cannot change directory to <{}>. Path does not exist or is not a directory.", path, 0)

Turn(role, content) == [role |-> role, content |-> content]

\* Lines 81-82: the static policy text followed by the working directory.
DynamicSystemMessage(dir) ==
  Text("{system_message}\n\nCurrent Working Directory: {}", dir, 0)

(***************************************************************************)
(* Command names.                                                          *)
(***************************************************************************)
ls == <<"l", "s">>

cat == <<"c", "a", "t">>

find == <<"f", "i", "n", "d">>

grep == <<"g", "r", "e", "p">>

cd == <<"c", "d">>

rm == <<"r", "m">>

rmdir == <<"r", "m", "d", "i", "r">>

mkdir == <<"m", "k", "d", "i", "r">>

\* Llama3Agent.whitelisted_commands as built by __init__.
InitialWhitelist ==
  [c \in { ls, <<"p", "w", "d">>, cat, <<"e", "c", "h", "o">>, find, grep,
           <<"d", "f">>, <<"d", "u">>, <<"p", "s">>,
           <<"w", "h", "o", "a", "m", "i">>, mkdir, rmdir,
           <<"t", "o", "u", "c", "h">>, rm } |-> TRUE]

(***************************************************************************)
(* The safety gate at the head of Llama3Agent._execute_shell_command.      *)
(***************************************************************************)
CmdParts(command_string) == SplitMax1(Strip(command_string))

BaseCommand(command_string) == CmdParts(command_string)[1]

\* TraversalBlocked with rm counted among the navigation commands.
TraversalBlockedRmExempt(command_string) ==
  /\ Contains(Split(command_string, Slash), DotDot)
  /\ BaseCommand(command_string) \notin {cd, ls, cat, find, grep, rm}

\* The parent-traversal test of line 47.
TraversalBlocked(command_string) ==
  /\ Contains(Split(command_string, Slash), DotDot)
  /\ BaseCommand(command_string) \notin {cd, ls, cat, find, grep}

\* Whitelisted with the test lost: every command passes.
WhitelistedAny(base, wl) == TRUE

\* The whitelist test of line 50, as the condition to go on.
Whitelisted(base, wl) == base \in DOMAIN wl /\ wl[base]

(***************************************************************************)
(* The process-execution collaborator: subprocess.run(command_string,      *)
(* shell=True, capture_output=True, text=True, check=True, cwd=...).       *)
(*                                                                         *)
(* /bin/sh runs the simple commands of the text one after the other.  Of   *)
(* the whitelisted commands rm, rmdir and mkdir change the file system;    *)
(* what a process prints and how it exits is the environment's choice.     *)
(***************************************************************************)
\* str.split() with no argument: the whitespace-separated words.
RECURSIVE Words(_)
Words(s) ==
  LET t == LStrip(s)
      n == SpanUntil(t, Whitespace)
  IN  IF t = <<>> THEN <<>> ELSE <<Take(t, n)>> \o Words(Drop(t, n))

\* The simple commands of a shell text: separated by ; or newline.
RECURSIVE SimpleCommands(_)
SimpleCommands(s) ==
  LET n == SpanUntil(s, {";", "\n"})
  IN  IF n = Len(s) THEN <<s>>
      ELSE <<Take(s, n)>> \o SimpleCommands(Drop(s, n + 1))

RECURSIVE SelectSeqNonEmpty(_)
SelectSeqNonEmpty(parts) ==
  IF parts = <<>> THEN <<>>
  ELSE IF Head(parts) = <<>> THEN SelectSeqNonEmpty(Tail(parts))
  ELSE <<Head(parts)>> \o SelectSeqNonEmpty(Tail(parts))

\* The last component of a path text, as rm and rmdir look at it.
LastComponent(p) ==
  LET comps == SelectSeqNonEmpty(Split(p, Slash))
  IN  IF comps = <<>> THEN <<>> ELSE comps[Len(comps)]

IsPrefix(d, e) == Len(e) >= Len(d) /\ Take(e, Len(d)) = d

FsState(ds, fs) == [dirs |-> ds, files |-> fs]

\* rmdir P: an existing, empty directory other than the root goes away.
RmdirOne(p, dir, st) ==
  LET d == Lookup(p, dir, st.dirs, st.files)
  IN  IF /\ d \in st.dirs
         /\ d # <<>>
         /\ LastComponent(p) \notin {Dot, DotDot}
         /\ \A e \in st.dirs \cup st.files : IsPrefix(d, e) => e = d
      THEN FsState(st.dirs \ {d}, st.files)
      ELSE st

\* rm P and rm -r P: a file goes away; with -r a directory goes away with
\* everything below it.  rm refuses the root and a last component . or ..
RmOne(p, dir, recursive, st) ==
  LET d == Lookup(p, dir, st.dirs, st.files)
  IN  IF d = NoEnt \/ d = <<>> \/ LastComponent(p) \in {Dot, DotDot} THEN st
      ELSE IF d \in st.files THEN FsState(st.dirs, st.files \ {d})
      ELSE IF recursive
           THEN FsState({e \in st.dirs : ~IsPrefix(d, e)},
                        {e \in st.files : ~IsPrefix(d, e)})
      ELSE st

\* mkdir P: a new directory when its parent exists and the name is free.
MkdirOne(p, dir, st) ==
  LET comps == SelectSeqNonEmpty(Split(p, Slash))
      name == LastComponent(p)
      start == IF IsAbs(p) THEN <<>> ELSE dir
      parent == Walk(Take(comps, Len(comps) - 1), start, st.dirs, st.files)
  IN  IF /\ comps # <<>>
         /\ name \notin {Dot, DotDot}
         /\ parent \in st.dirs
         /\ Append(parent, name) \notin st.dirs \cup st.files
      THEN FsState(st.dirs \cup {Append(parent, name)}, st.files)
      ELSE st

IsOption(w) == w # <<>> /\ Head(w) = "-"

RECURSIVE ApplyOperands(_, _, _, _, _)
ApplyOperands(base, words, dir, recursive, st) ==
  IF words = <<>> THEN st
  ELSE LET w == Head(words)
           next == IF IsOption(w) THEN st
                   ELSE IF base = rmdir THEN RmdirOne(w, dir, st)
                   ELSE IF base = rm THEN RmOne(w, dir, recursive, st)
                   ELSE IF base = mkdir THEN MkdirOne(w, dir, st)
                   ELSE st
       IN  ApplyOperands(base, Tail(words), dir, recursive, next)

\* One simple command run in directory dir.
RunSimple(text, dir, st) ==
  LET words == Words(text)
      recursive == \E i \in 1..Len(words) :
                     IsOption(words[i]) /\ (Contains(words[i], "r") \/ Contains(words[i], "R"))
  IN  IF words = <<>> \/ dir \notin st.dirs THEN st
      ELSE ApplyOperands(words[1], Tail(words), dir, recursive, st)

RECURSIVE RunList(_, _, _)
RunList(cmds, dir, st) ==
  IF cmds = <<>> THEN st
  ELSE RunList(Tail(cmds), dir, RunSimple(Head(cmds), dir, st))

\* What the environment decides about a started process, or about the
\* attempt to start it: Completed (exit status 0) with the captured
\* streams, CalledProcessError (check=True and a status that is not 0), or
\* another exception raised by subprocess.run.
Completed(out, err) ==
  [raised |-> "none", stdout |-> out, stderr |-> err, returncode |-> 0]

CalledProcessError(code, err) ==
  [raised |-> "CalledProcessError", stdout |-> <<>>, stderr |-> err, returncode |-> code]

Raised(exc) ==
  [raised |-> exc, stdout |-> <<>>, stderr |-> <<>>, returncode |-> 0]

\* shell=True (line 57): the command line is handed to /bin/sh, which always
\* starts; a command whose binary is not installed makes sh write its
\* "not found" line to standard error and exit with status 127, which
\* check=True (line 60) turns into CalledProcessError.
ShellNotFound == CalledProcessError(127, <<"n", "f", "\n">>)

ProcOutcomes ==
  { Completed(<<"o", "\n">>, <<>>), Completed(<<" ">>, <<"e">>), Completed(<<>>, <<>>),
    CalledProcessError(1, <<"e", "\n">>), ShellNotFound, Raised("OSError") }

\* rm, rmdir and mkdir write nothing to standard output and nothing at all
\* when they succeed.
Outcomes(command_string) ==
  IF Words(command_string) # <<>> /\ Words(command_string)[1] \in {rm, rmdir, mkdir}
  THEN {o \in ProcOutcomes : o.stdout = <<>> /\ (o.raised = "none" => o.stderr = <<>>)}
  ELSE ProcOutcomes

\* subprocess.run(..., cwd=dir): the result and the file system afterwards.
\* A working directory that does not exist makes Popen raise
\* FileNotFoundError before any process exists; with another exception of
\* the start no process exists either.
SubprocessRun(command_string, dirText, st, env) ==
  LET dir == Lookup(dirText, <<>>, st.dirs, st.files)
  IN  IF dir \notin st.dirs
      THEN [result |-> Raised("FileNotFoundError"), fs |-> st, started |-> FALSE]
      ELSE IF env.raised \notin {"none", "CalledProcessError"}
      THEN [result |-> env, fs |-> st, started |-> FALSE]
      ELSE [result |-> env, fs |-> RunList(SimpleCommands(command_string), dir, st),
            started |-> TRUE]

(***************************************************************************)
(* Llama3Agent._execute_shell_command and Llama3Agent.process_query.       *)
(***************************************************************************)
\* Lines 63-78: the text returned for what subprocess.run did.
FormatResult(base, r) ==
  IF r.raised = "none"
  THEN IF Strip(r.stdout) # <<>> THEN CommandOutputMsg(Strip(r.stdout))
       ELSE IF Strip(r.stderr) # <<>> THEN CommandErrorMsg(Strip(r.stderr))
       ELSE NoOutputMsg
  ELSE IF r.raised = "CalledProcessError"
  THEN CommandFailedMsg(r.returncode, Strip(r.stderr))
  ELSE IF r.raised = "FileNotFoundError" THEN NotFoundMsg(base)
  ELSE UnexpectedMsg(<<r.raised>>)

\* ExecutionDirectory with the cwd argument lost: the process starts in the
\* interpreter's own directory.
ExecutionDirectoryInherited(cwd) == ProcessCwd

\* The directory handed to subprocess.run as cwd (line 61).
ExecutionDirectory(cwd) == cwd

\* What _execute_shell_command hands back: the text returned, the file
\* system afterwards, the return taken ("none", "dotdot", "whitelist" or
\* "run") and the calls of subprocess.run made.
Executed(text, st, gate, calls) ==
  [text |-> text, fs |-> st, gate |-> gate, calls |-> calls]

\* Lines 53-78: the call of subprocess.run and the text for its result.
RunCommand(command_string, base, dir, run) ==
  Executed(FormatResult(base, run.result), run.fs, "run",
           <<[command |-> command_string, cwd |-> dir, started |-> run.started,
              result |-> run.result]>>)

\* _execute_shell_command(command_string)
execute_shell_command(command_string, wl, cwd, st, env) ==
  IF CmdParts(command_string) = <<>> THEN Executed(NoCommandMsg, st, "none", <<>>)
  ELSE IF TraversalBlocked(command_string)
  THEN Executed(SecurityAlertMsg, st, "dotdot", <<>>)
  ELSE IF ~Whitelisted(BaseCommand(command_string), wl)
  THEN Executed(NotWhitelistedMsg(BaseCommand(command_string)), st, "whitelist", <<>>)
  ELSE RunCommand(command_string, BaseCommand(command_string), ExecutionDirectory(cwd),
                  SubprocessRun(command_string, ExecutionDirectory(cwd), st, env))

\* A JSON number as a chunk: the content of a line such as {"response": 5}.
\* No text has an element of more than one character.
NumberChunk == <<"int", "5">>

\* The chunk is a str.
IsStr(chunk) == chunk = <<>> \/ chunk[1] # "int"

\* Line 105: full_response += chunk raises TypeError for a chunk that is
\* true and not a str.
DrainRaises(chunks) == \E i \in 1..Len(chunks) : ~IsStr(chunks[i])

\* Lines 102-105: the chunks that are not empty, concatenated in order.
RECURSIVE Drain(_)
Drain(chunks) ==
  IF chunks = <<>> THEN <<>>
  ELSE (IF Head(chunks) # <<>> THEN Head(chunks) ELSE <<>>) \o Drain(Tail(chunks))

Marker == <<"[", "C", "O", "M", "M", "A", "N", "D", "]", ":">>

\* The opener of a Python code block; Backtick stands for the backtick character.
Backtick == "BT"

PythonFence == <<Backtick, Backtick, Backtick, "p", "y", "t", "h", "o", "n">>

CdPrefix == <<"c", "d", " ">>

\* CommandMatch whose dot does not match a newline: group 1 ends at the
\* end of the first line.
CommandMatchOneLine(final_response) ==
  IF StartsWith(final_response, Marker)
  THEN Some(Take(LStrip(Drop(final_response, Len(Marker))),
                 SpanUntil(LStrip(Drop(final_response, Len(Marker))), {"\n"})))
  ELSE NoneVal

\* The match of the command pattern (marker, whitespace, the rest with
\* newlines) at the start of final_response: group 1, or None when the
\* text does not start with the marker.
CommandMatch(final_response) ==
  IF StartsWith(final_response, Marker)
  THEN Some(LStrip(Drop(final_response, Len(Marker))))
  ELSE NoneVal

\* Line 113: command_match.group(1).strip()
CommandString(command_match) == Strip(command_match.val)

\* Line 117
NewPath(command_string) == Strip(Drop(command_string, Len(CdPrefix)))

\* AbsoluteNewPath that joins the path and leaves it as written.
AbsoluteNewPathJoined(cwd, new_path) == PathJoin(cwd, new_path)

\* Line 118
AbsoluteNewPath(cwd, new_path) == AbsPath(PathJoin(cwd, new_path))

\* CdAccepted without the isdir test.
CdAcceptedExistsOnly(absolute_new_path, st) ==
  PathExists(absolute_new_path, st.dirs, st.files)

\* Line 120: the test that lets the directory change happen.
CdAccepted(absolute_new_path, st) ==
  /\ PathExists(absolute_new_path, st.dirs, st.files)
  /\ PathIsDir(absolute_new_path, st.dirs, st.files)

\* CdOutcome that assigns the working directory before the test of line
\* 120.
CdOutcomeAssignedFirst(new_path, absolute_new_path, cwd, st) ==
  IF CdAccepted(absolute_new_path, st)
  THEN [cwd |-> absolute_new_path, msg |-> CdOkMsg(absolute_new_path)]
  ELSE [cwd |-> absolute_new_path, msg |-> CdFailMsg(new_path)]

\* Lines 120-124: the new working directory and the message.
CdOutcome(new_path, absolute_new_path, cwd, st) ==
  IF CdAccepted(absolute_new_path, st)
  THEN [cwd |-> absolute_new_path, msg |-> CdOkMsg(absolute_new_path)]
  ELSE [cwd |-> cwd, msg |-> CdFailMsg(new_path)]

\* Lines 117-124: the internal directory change.
ChangeDirectory(command_string, cwd, st) ==
  CdOutcome(NewPath(command_string),
            AbsoluteNewPath(cwd, NewPath(command_string)), cwd, st)

\* The test of line 98 on what generate_text returned.
GatewayFailed(response_generator) == response_generator.isNone

\* IsCd that leaves a text with a command separator to the gate.
IsCdUnchained(command_string) ==
  StartsWith(command_string, <<"c", "d", " ">>) /\ ~Contains(command_string, ";")

\* Line 116.
IsCd(command_string) == StartsWith(command_string, CdPrefix)

\* MessagesForOllama that submits the system turn and the new user turn
\* only.
MessagesForOllamaLastOnly(cwd, hist1) ==
  <<Turn("system", DynamicSystemMessage(cwd)), hist1[Len(hist1)]>>

\* Lines 81-88: the conversation submitted to the gateway.
MessagesForOllama(cwd, hist1) ==
  <<Turn("system", DynamicSystemMessage(cwd))>> \o hist1

\* What a call of process_query did: the return statement taken (kind),
\* the text returned, and the state left behind.
Outcome(kind, ret, cwd, hist, st, calls, gate, sent, final, command) ==
  [kind |-> kind, ret |-> ret, cwd |-> cwd, hist |-> hist, fs |-> st,
   calls |-> calls, gate |-> gate, sent |-> sent, final |-> final,
   command |-> command]

\* Reply that appends nothing.
ReplySkipped(hist, text) == hist

\* Lines 127, 131, 136, 141: the assistant turn appended before a return.
Reply(hist, text) == Append(hist, Turn("assistant", text))

\* Lines 98-100: the return for a gateway that handed back None.
ReturnApology(cwd, hist1, st, sent) ==
  Outcome("none", Apology, cwd, hist1, st, <<>>, "skipped", sent, <<>>, <<>>)

\* Lines 126-128
ReturnCd(changed, hist1, st, sent, final, command_string) ==
  Outcome("cd", changed.msg, changed.cwd, Reply(hist1, changed.msg), st, <<>>,
          "skipped", sent, final, command_string)

\* Lines 130-132
ReturnExecuted(executed, cwd, hist1, sent, final, command_string) ==
  Outcome("command", executed.text, cwd, Reply(hist1, executed.text), executed.fs,
          executed.calls, executed.gate, sent, final, command_string)

\* ReturnRaw that hands the text to the shell gate first.
ReturnRawGated(kind, cwd, hist1, st, sent, final) ==
  Outcome(kind, NotWhitelistedMsg(final), cwd, Reply(hist1, NotWhitelistedMsg(final)),
          st, <<>>, "whitelist", sent, final, <<>>)

\* Lines 134-142: code and plain text pass through.
ReturnRaw(kind, cwd, hist1, st, sent, final) ==
  Outcome(kind, Raw(final), cwd, Reply(hist1, Raw(final)), st, <<>>, "skipped",
          sent, final, <<>>)

\* Lines 113-132: a response that matched the command pattern.
OnCommand(command_string, env, cwd, hist1, wl, st, sent, final) ==
  IF IsCd(command_string)
  THEN ReturnCd(ChangeDirectory(command_string, cwd, st), hist1, st, sent, final,
                command_string)
  ELSE ReturnExecuted(execute_shell_command(command_string, wl, cwd, st, env),
                      cwd, hist1, sent, final, command_string)

\* Lines 110-142: the classification of the collected response.
Classify(final_response, env, cwd, hist1, wl, st, sent) ==
  IF ~CommandMatch(final_response).isNone
  THEN OnCommand(CommandString(CommandMatch(final_response)), env, cwd, hist1, wl,
                 st, sent, final_response)
  ELSE IF StartsWith(final_response, PythonFence)
  THEN ReturnRaw("code", cwd, hist1, st, sent, final_response)
  ELSE ReturnRaw("text", cwd, hist1, st, sent, final_response)

\* FinalResponse without the strip of line 107.
FinalResponseUntrimmed(response_generator) == Drain(response_generator.chunks)

\* Lines 102-107: the generator drained and the text stripped.
FinalResponse(response_generator) == Strip(Drain(response_generator.chunks))

\* What process_query leaves when an exception goes out of it: nothing is
\* returned.
NoReturn == Text("raise {}", <<"TypeError">>, 0)

\* Lines 102-105: the exception of the drain is not handled in
\* process_query; the user turn of line 84 stays, nothing else was done.
Raise(cwd, hist1, st, sent) ==
  Outcome("raised", NoReturn, cwd, hist1, st, <<>>, "skipped", sent, <<>>, <<>>)

\* Lines 98-142
OnResponse(response_generator, env, cwd, hist1, wl, st, sent) ==
  IF GatewayFailed(response_generator) THEN ReturnApology(cwd, hist1, st, sent)
  ELSE IF DrainRaises(response_generator.chunks) THEN Raise(cwd, hist1, st, sent)
  ELSE Classify(FinalResponse(response_generator), env, cwd, hist1, wl, st, sent)

\* Lines 87-96
Converse(net, env, cwd, hist1, wl, st, sent) ==
  OnResponse(generate_text(sent, net), env, cwd, hist1, wl, st, sent)

\* Lines 84-88
WithUserTurn(net, env, cwd, hist1, wl, st) ==
  Converse(net, env, cwd, hist1, wl, st, MessagesForOllama(cwd, hist1))

\* process_query that keeps the system turn in the history.
process_queryStoringSystem(query, net, env, cwd, hist, wl, st) ==
  WithUserTurn(net, env, cwd,
               hist \o <<Turn("system", DynamicSystemMessage(cwd)),
                          Turn("user", Raw(query))>>, wl, st)

\* process_query(query)
process_query(query, net, env, cwd, hist, wl, st) ==
  WithUserTurn(net, env, cwd, Append(hist, Turn("user", Raw(query))), wl, st)

(***************************************************************************)
(* What the model can answer: the texts of complete answers.               *)
(***************************************************************************)
AnswerLsL == <<"[", "C", "O", "M", "M", "A", "N", "D", "]", ":", "l", "s", " ", "-", "l">>

AnswerRmUpUp == <<"[", "C", "O", "M", "M", "A", "N", "D", "]", ":", "r", "m", " ", "-", "r", "f", " ", ".", ".", "/", ".", ".", "/">>

AnswerRmUpB == <<"[", "C", "O", "M", "M", "A", "N", "D", "]", ":", "r", "m", " ", "-", "r", "f", " ", ".", ".", "/", "b">>

AnswerRmHome == <<"[", "C", "O", "M", "M", "A", "N", "D", "]", ":", "r", "m", " ", "-", "r", "f", " ", "/", "h">>

AnswerLsUp == <<"[", "C", "O", "M", "M", "A", "N", "D", "]", ":", "l", "s", " ", ".", ".", "/", ".", ".">>

AnswerSu == <<"[", "C", "O", "M", "M", "A", "N", "D", "]", ":", "s", "u">>

AnswerCdA == <<"[", "C", "O", "M", "M", "A", "N", "D", "]", ":", "c", "d", " ", "a">>

AnswerCdUp == <<"[", "C", "O", "M", "M", "A", "N", "D", "]", ":", "c", "d", " ", ".", ".">>

AnswerCdMissing == <<"[", "C", "O", "M", "M", "A", "N", "D", "]", ":", "c", "d", " ", "z", "z">>

AnswerCdChain == <<"[", "C", "O", "M", "M", "A", "N", "D", "]", ":", "c", "d", " ", ".", ".", ";", " ", "r", "m", " ", "-", "r", "f", " ", "/", "h">>

AnswerCdBare == <<"[", "C", "O", "M", "M", "A", "N", "D", "]", ":", "c", "d">>

AnswerCdTab == <<"[", "C", "O", "M", "M", "A", "N", "D", "]", ":", "c", "d", "\t", "/", ".", ".", "/", "h">>

AnswerCdFile == <<"[", "C", "O", "M", "M", "A", "N", "D", "]", ":", "c", "d", " ", "f">>

AnswerEmpty == <<"[", "C", "O", "M", "M", "A", "N", "D", "]", ":">>

AnswerPadded == <<" ", "[", "C", "O", "M", "M", "A", "N", "D", "]", ":", " ", "c", "d", " ", "a", "/", ".", ".", "/", "b", "\n">>

AnswerTwoLines == <<"[", "C", "O", "M", "M", "A", "N", "D", "]", ":", "m", "k", "d", "i", "r", " ", "c", "\n", "r", "m", " ", "-", "r", "f", " ", "a">>

AnswerHi == <<"h", "i">>

AnswerBlank == <<" ", " ">>

AnswerCode == PythonFence \o <<"\n", "x">>

Answers ==
  { AnswerLsL,
    AnswerRmUpUp,
    AnswerRmUpB,
    AnswerRmHome,
    AnswerLsUp,
    AnswerSu,
    AnswerCdA,
    AnswerCdUp,
    AnswerCdMissing,
    AnswerCdChain,
    AnswerCdBare,
    AnswerCdTab,
    AnswerCdFile,
    AnswerEmpty,
    AnswerPadded,
    AnswerTwoLines,
    AnswerHi,
    AnswerBlank,
    AnswerCode }

(***************************************************************************)
(* What the backend can do in one call.                                    *)
(***************************************************************************)
ChatLine(text, done) ==
  [kind |-> "json", obj |-> JsonObj({"message", "done"}, text, <<>>, done)]

GenerateLine(text, done) ==
  [kind |-> "json", obj |-> JsonObj({"response", "done"}, <<>>, text, done)]

DoneLine == [kind |-> "json", obj |-> JsonObj({"done"}, <<>>, <<>>, TRUE)]

BadLine == [kind |-> "bad", obj |-> NoObj]

BlankLine == [kind |-> "blank", obj |-> NoObj]

FaultLine == [kind |-> "fault", obj |-> NoObj]

Stream(lines) == [conn |-> "ok", lines |-> lines]

ConnectError == [conn |-> "connect_error", lines |-> <<>>]

HttpError == [conn |-> "http_error", lines |-> <<>>]

FragRmdirH == <<"[", "C", "O", "M", "M", "A", "N", "D", "]", ":", "r", "m", "d", "i", "r", " ", "/", "h">>

FragCdH == <<"[", "C", "O", "M", "M", "A", "N", "D", "]", ":", "c", "d", " ", "/", "h">>

FragB == <<"/", "b">>

FragA == <<"/", "a">>

\* The answer "rmdir /h/a" in two fragments, complete.
StreamWhole == Stream(<<ChatLine(FragRmdirH, FALSE), ChatLine(FragA, TRUE)>>)

\* The same answer cut by a transport fault after the first fragment.
StreamCut == Stream(<<ChatLine(FragRmdirH, FALSE), FaultLine>>)

\* The answer "cd /h/b/a" whose middle fragment arrives unparseable.
StreamGapped ==
  Stream(<<ChatLine(FragCdH, FALSE), BadLine, ChatLine(FragA, TRUE)>>)

\* The answer "cd /h/b/a" of which two fragments arrive; then the
\* connection closes with no done marker.
StreamNoDone == Stream(<<ChatLine(FragCdH, FALSE), ChatLine(FragB, FALSE)>>)

\* Blank lines, an empty fragment, the /generate shape, a closing object
\* without content, and lines after the done marker.
StreamOdd ==
  Stream(<<BlankLine, ChatLine(<<>>, FALSE), GenerateLine(AnswerHi, FALSE),
           DoneLine, ChatLine(AnswerLsL, TRUE)>>)

\* A directory change whose last line carries a number where the text
\* should be.
StreamNumber == Stream(<<ChatLine(FragCdH, FALSE), GenerateLine(NumberChunk, TRUE)>>)

Streams ==
  {Stream(<<ChatLine(a, TRUE)>>) : a \in Answers}
  \cup {ConnectError, HttpError, StreamWhole, StreamCut, StreamGapped,
        StreamNoDone, StreamOdd, StreamNumber}

(***************************************************************************)
(* The interactive loop of main.py.                                        *)
(***************************************************************************)
LowerChar(c) ==
  CASE c = "E" -> "e" [] c = "X" -> "x" [] c = "I" -> "i" [] c = "T" -> "t"
    [] OTHER -> c

\* str.lower()
Lower(s) == [i \in 1..Len(s) |-> LowerChar(s[i])]

ExitWord == <<"e", "x", "i", "t">>

Query == <<"q">>

UserInputs == {ExitWord, <<"E", "x", "i", "t">>, <<>>, <<" ">>, Query}

\* The file system the program starts in: /, /h (the home directory),
\* /h/a, /h/b and the file /h/f.
Home == <<"/", "h">>

h == <<"h">>

InitialDirs == {<<>>, <<h>>, <<h, <<"a">>>>, <<h, <<"b">>>>}

InitialFiles == {<<h, <<"f">>>>}

VARIABLES
  current_working_directory,  \* Llama3Agent.current_working_directory
  conversation_history,       \* Llama3Agent.conversation_history
  whitelisted_commands,       \* Llama3Agent.whitelisted_commands
  dirs,                       \* the directories of the file system
  files,                      \* the files of the file system
  running,                    \* main's while loop has not been left
  turns,                      \* calls of process_query so far
  runs,                       \* every call of subprocess.run so far
  last                        \* what the last call of process_query did

vars ==
  <<current_working_directory, conversation_history, whitelisted_commands,
    dirs, files, running, turns, runs, last>>

NoTurn ==
  [kind |-> "init", ret |-> Apology, calls |-> <<>>, gate |-> "skipped",
   sent |-> <<>>, final |-> <<>>, command |-> <<>>,
   net |-> ConnectError, preCwd |-> Home, preLen |-> 0,
   preFs |-> FsState(InitialDirs, InitialFiles)]

\* Dispatcher.__init__ and Llama3Agent.__init__; os.path.expanduser("~") is
\* the home directory.
Init ==
  /\ current_working_directory = Home
  /\ conversation_history = <<>>
  /\ whitelisted_commands = InitialWhitelist
  /\ dirs = InitialDirs
  /\ files = InitialFiles
  /\ running = TRUE
  /\ turns = 0
  /\ runs = <<>>
  /\ last = NoTurn

\* Dispatcher.dispatch_request: hands the query to process_query and the
\* response back.
dispatch_request(user_query, net, env, cwd, hist, wl, st) ==
  process_query(user_query, net, env, cwd, hist, wl, st)

\* The outcomes the environment can choose from for a turn that did what
\* r says: those of the command if the turn got as far as subprocess.run;
\* a turn that does not get there has nothing to choose.
OutcomesFor(r) ==
  IF r.calls # <<>> THEN Outcomes(r.command) ELSE {Completed(<<>>, <<>>)}

Environment(user_query, net, cwd, hist, wl) ==
  OutcomesFor(process_query(user_query, net, Completed(<<>>, <<>>), cwd, hist, wl,
                            FsState({}, {})))

\* What a turn did, with the state it started from.
Observed(r, net, cwd, hist, st) ==
  [kind |-> r.kind, ret |-> r.ret, calls |-> r.calls, gate |-> r.gate,
   sent |-> r.sent, final |-> r.final, command |-> r.command, net |-> net,
   preCwd |-> cwd, preLen |-> Len(hist), preFs |-> st]

\* RunningAfter with no handler around the turn: the exception ends main.
RunningAfterUncaught(r) == r.kind # "raised"

\* main, lines 27-37: after dispatch_request returned the loop sleeps and
\* goes round; an exception out of it is caught by except Exception (lines
\* 33-35), reported, and the loop goes round as well.
RunningAfter(r) == TRUE

\* The state a turn leaves.
TurnEffect(r, net) ==
  /\ running' = RunningAfter(r)
  /\ current_working_directory' = r.cwd
  /\ conversation_history' = r.hist
  /\ dirs' = r.fs.dirs
  /\ files' = r.fs.files
  /\ runs' = runs \o r.calls
  /\ last' = Observed(r, net, current_working_directory, conversation_history,
                      FsState(dirs, files))

\* main: the input is the word exit in any case; the loop is left.
MainExit ==
  /\ running
  /\ \E user_query \in UserInputs :
       /\ Lower(user_query) = ExitWord
       /\ running' = FALSE
  /\ UNCHANGED <<current_working_directory, conversation_history,
                 whitelisted_commands, dirs, files, turns, runs, last>>

\* main: KeyboardInterrupt while waiting for input; the loop is left.
MainInterrupt ==
  /\ running
  /\ running' = FALSE
  /\ UNCHANGED <<current_working_directory, conversation_history,
                 whitelisted_commands, dirs, files, turns, runs, last>>

\* main: an empty or whitespace-only input is skipped.
MainBlank ==
  /\ running
  /\ \E user_query \in UserInputs :
       /\ Lower(user_query) # ExitWord
       /\ Strip(user_query) = <<>>
  /\ UNCHANGED vars

\* main: any other input is one turn, dispatch_request(user_query).
MainTurn ==
  /\ running
  /\ turns < MaxTurns
  /\ \E user_query \in UserInputs, net \in Streams :
       /\ Lower(user_query) # ExitWord
       /\ Strip(user_query) # <<>>
       /\ \E env \in Environment(user_query, net, current_working_directory,
                                  conversation_history, whitelisted_commands) :
            TurnEffect(dispatch_request(user_query, net, env,
                                        current_working_directory,
                                        conversation_history, whitelisted_commands,
                                        FsState(dirs, files)), net)
  /\ turns' = turns + 1
  /\ UNCHANGED whitelisted_commands

Next == MainExit \/ MainInterrupt \/ MainBlank \/ MainTurn

Spec == Init /\ [][Next]_vars

(***************************************************************************)
(* Properties.                                                             *)
(***************************************************************************)
\* A call of process_query has returned.
TurnDone == last.kind # "init"

\* The gateway call of the last turn failed before any fragment: the
\* backend was unreachable or answered with a non-success status.
GatewayCallFailed == TurnDone /\ last.net.conn # "ok"

\* The first whitespace-delimited word of a text, <<>> if it has none.
FirstWord(text) == IF Words(text) = <<>> THEN <<>> ELSE Words(text)[1]

\* The text has a segment that is exactly .. between slashes or the ends.
HasParentSegment(text) ==
  \E i \in 1..(Len(text) - 1) :
    /\ text[i] = "." /\ text[i + 1] = "."
    /\ (i = 1 \/ text[i - 1] = Slash)
    /\ (i + 1 = Len(text) \/ text[i + 2] = Slash)

NavigationCommands == {ls, cat, find, grep}

Denials(text) ==
  {SecurityAlertMsg, NotWhitelistedMsg(FirstWord(text))}

\* C1: subprocess.run is only ever called for a command text whose first
\* word is present and enabled in the whitelist; a turn whose command text
\* has a first word that is not in the whitelist makes no call, and when
\* the gate is asked about such a text the turn's output is a denial.
C1_OnlyWhitelistedRuns ==
  /\ \A i \in 1..Len(runs) :
       /\ FirstWord(runs[i].command) \in DOMAIN whitelisted_commands
       /\ whitelisted_commands[FirstWord(runs[i].command)]
  /\ (last.kind \in {"command", "cd"}
      /\ FirstWord(last.command) # <<>>
      /\ FirstWord(last.command) \notin DOMAIN whitelisted_commands)
     => /\ last.calls = <<>>
        /\ last.kind = "command" => last.ret \in Denials(last.command)

\* C1 witness: a whitelisted command has been run, and the last turn asked
\* for a command that is not in the whitelist.
C1_Witness ==
  /\ runs # <<>>
  /\ last.kind = "command"
  /\ last.command = Drop(AnswerSu, Len(Marker))
  /\ last.ret = NotWhitelistedMsg(last.command)

\* C2: a command text with a .. segment and a first word other than ls,
\* cat, find, grep is denied when the gate is asked about it, whitelisted
\* or not, and the turn calls no process.
C2_TraversalDenied ==
  (last.kind \in {"command", "cd"}
   /\ HasParentSegment(last.command)
   /\ FirstWord(last.command) \notin NavigationCommands)
  => /\ last.calls = <<>>
     /\ dirs = last.preFs.dirs /\ files = last.preFs.files
     /\ last.kind = "command" => last.ret \in Denials(last.command)

\* C2 witness: rm -rf ../../ with rm whitelisted was answered by the
\* security alert.
C2_Witness ==
  /\ last.kind = "command"
  /\ last.command = Drop(AnswerRmUpUp, Len(Marker))
  /\ rm \in DOMAIN whitelisted_commands /\ whitelisted_commands[rm]
  /\ last.ret = SecurityAlertMsg

\* C3 as stated: a call of process_query makes the history longer by 2, and
\* by 1 when the gateway call failed.
C3_HistoryGrowth ==
  TurnDone =>
    Len(conversation_history) = last.preLen + (IF GatewayCallFailed THEN 1 ELSE 2)

\* C4 as stated: when the gateway call failed, process_query returns the
\* apology.
C4_FailureReturnsApology == GatewayCallFailed => last.ret = Apology

\* C5 as stated: the working directory is always an absolute path of a
\* directory that exists.
C5_WorkingDirectoryExists ==
  /\ IsAbs(current_working_directory)
  /\ Lookup(current_working_directory, <<>>, dirs, files) \in dirs

\* The components of a path text that are not empty.
Components(p) == SelectSeqNonEmpty(Split(p, Slash))

\* The directory reached from directory at by following the components
\* lexically: . stays, .. goes to the parent (the root is its own parent).
RECURSIVE Follow(_, _)
Follow(comps, at) ==
  IF comps = <<>> THEN at
  ELSE IF Head(comps) = Dot THEN Follow(Tail(comps), at)
  ELSE IF Head(comps) = DotDot
       THEN Follow(Tail(comps), IF at = <<>> THEN at ELSE Take(at, Len(at) - 1))
  ELSE Follow(Tail(comps), Append(at, Head(comps)))

\* The directory a path names when resolved against a working directory.
Resolved(cwd, path) ==
  Follow(Components(path), IF IsAbs(path) THEN <<>> ELSE Follow(Components(cwd), <<>>))

\* The text that follows the cd prefix in the command of the last turn.
CdArgument == Strip(Drop(last.command, 3))

\* C6: in a cd turn, if the path resolved against the working directory the
\* turn started with is an existing directory, the working directory is
\* afterwards the absolute path of that directory and the output is the
\* success message naming it; otherwise the working directory is the one
\* the turn started with and the output is the failure message naming the
\* path given.
C6_ChangeDirectory ==
  last.kind = "cd" =>
    IF Resolved(last.preCwd, CdArgument) \in last.preFs.dirs
    THEN /\ IsAbs(current_working_directory)
         /\ Components(current_working_directory) = Resolved(last.preCwd, CdArgument)
         /\ last.ret = CdOkMsg(current_working_directory)
    ELSE /\ current_working_directory = last.preCwd
         /\ last.ret = CdFailMsg(CdArgument)

\* C6 witness: after a directory change that succeeded, one that failed.
C6_Witness ==
  /\ last.kind = "cd"
  /\ last.preCwd # Home
  /\ current_working_directory = last.preCwd
  /\ last.ret = CdFailMsg(CdArgument)

\* The command text of the last turn as the response carries it: what
\* follows the marker, trimmed.
CarriedCommand == Strip(Drop(last.final, Len(Marker)))

\* C7: a turn whose command text begins with "cd " is a directory change
\* and nothing else: no call of subprocess.run, the gate not asked, the file
\* system untouched, and one of the two directory-change messages returned.
C7_CdIsInternal ==
  (TurnDone /\ StartsWith(last.final, Marker)
   /\ StartsWith(CarriedCommand, <<"c", "d", " ">>))
  => /\ last.kind = "cd"
     /\ last.calls = <<>>
     /\ last.gate = "skipped"
     /\ dirs = last.preFs.dirs /\ files = last.preFs.files
     /\ last.ret \in {CdOkMsg(current_working_directory), CdFailMsg(CdArgument)}

\* C7 witness: the command text cd ..; rm -rf /h was handled as a directory
\* change.
C7_Witness ==
  /\ last.kind = "cd"
  /\ last.command = Drop(AnswerCdChain, Len(Marker))
  /\ Contains(last.command, ";")
  /\ runs = <<>>

\* The stream was read up to a done marker, with no transport fault and no
\* unparseable line on the way.
RECURSIVE CleanToDone(_)
CleanToDone(lines) ==
  /\ lines # <<>>
  /\ Head(lines).kind \in {"json", "blank"}
  /\ \/ Head(lines).kind = "json" /\ "done" \in Head(lines).obj.keys /\ Head(lines).obj.done
     \/ CleanToDone(Tail(lines))

\* C8 as stated: a turn classifies a command (and runs it or changes the
\* directory) only from a stream drained to its done marker without a
\* fault, a missing done marker or an unparseable fragment.
C8_NoDecisionOnPartialStream ==
  (TurnDone /\ last.kind \in {"command", "cd"})
  => (last.net.conn = "ok" /\ CleanToDone(last.net.lines))

\* C9: when process_query returns the output text of a turn, the last entry
\* of the history is the assistant turn with exactly that text.
C9_ReturnedTextIsLastTurn ==
  (TurnDone /\ last.kind \in {"command", "cd", "code", "text"})
  => /\ conversation_history # <<>>
     /\ conversation_history[Len(conversation_history)] = Turn("assistant", last.ret)

\* C9 witness: a command was run and its output returned.
C9_Witness ==
  /\ last.kind = "command"
  /\ last.calls # <<>>
  /\ last.ret = CommandOutputMsg(<<"o">>)
  /\ conversation_history[Len(conversation_history)].content = last.ret

\* C10: a call of subprocess.run is made with the working directory the
\* session has at that moment; in the turn after a directory change that
\* succeeded this is the directory changed to, in the turn after one that
\* failed it is the directory the session had before.
C10_RunsInWorkingDirectory ==
  [][turns' = turns + 1 =>
       \A i \in 1..Len(last'.calls) :
         /\ last'.calls[i].cwd = current_working_directory
         /\ (last.kind = "cd" /\ last.ret.fmt = CdOkMsg(<<>>).fmt)
            => last'.calls[i].cwd = last.ret.arg
         /\ (last.kind = "cd" /\ last.ret.fmt = CdFailMsg(<<>>).fmt)
            => last'.calls[i].cwd = last.preCwd]_vars

\* C10 witness: a process was started in a directory changed to earlier.
C10_Witness ==
  /\ last.calls # <<>>
  /\ last.calls[1].started
  /\ last.calls[1].cwd # Home
  /\ last.calls[1].cwd = current_working_directory

\* C11: in a turn classified as code or plain text the collected text is
\* the turn's output as it is: no call of subprocess.run, the gate not
\* asked, the working directory and the file system as before.
C11_PassThrough ==
  (TurnDone /\ ~StartsWith(last.final, Marker) /\ last.kind \in {"code", "text"})
  => /\ last.ret = Raw(last.final)
     /\ last.kind = "code" <=> StartsWith(last.final, PythonFence)
     /\ last.calls = <<>>
     /\ last.gate = "skipped"
     /\ current_working_directory = last.preCwd
     /\ dirs = last.preFs.dirs /\ files = last.preFs.files

\* C11 witness: a Python code block was passed through after the working
\* directory had been changed.
C11_Witness ==
  /\ last.kind = "code"
  /\ last.final = AnswerCode
  /\ last.ret = Raw(AnswerCode)
  /\ current_working_directory # Home

\* The last turn was a directory change that succeeded.
CdSucceeded ==
  /\ last.kind = "cd"
  /\ last.ret = CdOkMsg(current_working_directory)

\* C12: when two turns in a row change the directory with success and the
\* second names the same directory as the first (its path resolved against
\* the working directory it starts with is the directory the first resolved
\* to), the working directory after the second is the one after the first.
C12_CdIdempotent ==
  [][(/\ turns' = turns + 1
      /\ CdSucceeded
      /\ CdSucceeded'
      /\ Resolved(last'.preCwd, Strip(Drop(last'.command, 3)))
           = Resolved(last.preCwd, CdArgument))
     => current_working_directory' = current_working_directory]_vars

\* C12 witness: a second successful change to the directory the session
\* was already moved to, away from the home directory.
C12_Witness ==
  /\ turns = 2
  /\ CdSucceeded
  /\ last.preCwd # Home
  /\ Resolved(last.preCwd, CdArgument) = Components(last.preCwd)
  /\ current_working_directory = last.preCwd

\* C13: the output of a turn that called subprocess.run follows from the
\* result of the call: standard output when it is not empty, else standard
\* error when it is not empty, else the fixed no-output message; with a
\* non-zero exit status the message carrying the status and standard
\* error; with a binary that is not installed the not-found message naming
\* the command; with any other fault the generic message; and the turn
\* returns in every case.
C13_OutputFormatting ==
  (TurnDone /\ last.gate = "run") =>
    /\ last.kind = "command"
    /\ Len(last.calls) = 1
    /\ LET r == last.calls[1].result
       IN  /\ (r.raised = "none" /\ Strip(r.stdout) # <<>>)
                => last.ret = CommandOutputMsg(Strip(r.stdout))
           /\ (r.raised = "none" /\ Strip(r.stdout) = <<>> /\ Strip(r.stderr) # <<>>)
                => last.ret = CommandErrorMsg(Strip(r.stderr))
           /\ (r.raised = "none" /\ Strip(r.stdout) = <<>> /\ Strip(r.stderr) = <<>>)
                => last.ret = NoOutputMsg
           /\ (r.raised = "CalledProcessError" /\ r # ShellNotFound)
                => last.ret = CommandFailedMsg(r.returncode, Strip(r.stderr))
           /\ r = ShellNotFound => last.ret = NotFoundMsg(FirstWord(last.command))
           /\ r.raised \notin {"none", "CalledProcessError"}
                => last.ret = UnexpectedMsg(<<r.raised>>)

\* The raw text of the last turn: what the gateway's fragments add up to,
\* before trimming.
RawOutput == Drain(GeneratorBody(last.sent, last.net))

\* C14: a raw output that is text and begins, once trimmed, with the
\* command marker is classified as a command (a directory change included,
\* never code or text) whose command text is all that follows the marker,
\* trimmed, newlines inside it included.
C14_MarkerMeansCommand ==
  (TurnDone /\ ~DrainRaises(GeneratorBody(last.sent, last.net))
            /\ StartsWith(Strip(RawOutput), Marker)) =>
    /\ last.kind \in {"command", "cd"}
    /\ last.command = Strip(Drop(Strip(RawOutput), Len(Marker)))

\* C14 witness: a command text of two lines was taken whole.
C14_Witness ==
  /\ last.kind = "command"
  /\ Contains(last.command, "\n")
  /\ RawOutput = AnswerTwoLines
  /\ last.command = Drop(AnswerTwoLines, Len(Marker))

\* C15: every raw output that is text falls into exactly one class without
\* an exception: command (a directory change included) exactly when the
\* trimmed text begins with the marker, code exactly when it does not and
\* begins with the Python fence, text otherwise; an empty or
\* whitespace-only output is text with an empty body.
C15_ClassificationTotal ==
  (TurnDone /\ ~DrainRaises(GeneratorBody(last.sent, last.net))) =>
    /\ last.kind \in {"command", "cd", "code", "text"}
    /\ last.kind \in {"command", "cd"} <=> StartsWith(Strip(RawOutput), Marker)
    /\ last.kind = "code" <=> (/\ ~StartsWith(Strip(RawOutput), Marker)
                               /\ StartsWith(Strip(RawOutput), PythonFence))
    /\ Strip(RawOutput) = <<>> => (last.kind = "text" /\ last.ret = Raw(<<>>))

\* C15 witness: an output of blanks only came back as text with an empty
\* body.
C15_Witness ==
  /\ last.kind = "text"
  /\ RawOutput = AnswerBlank
  /\ last.ret = Raw(<<>>)
  /\ last.net.conn = "ok"

\* C16: a turn in which process_query raises leaves the loop running, the
\* working directory and the file system as they were, and every entry the
\* history had in its place.
C16_SessionSurvivesFault ==
  [][(turns' = turns + 1 /\ last'.kind = "raised")
     => /\ running'
        /\ current_working_directory' = current_working_directory
        /\ dirs' = dirs /\ files' = files
        /\ Len(conversation_history') >= Len(conversation_history)
        /\ SubSeq(conversation_history', 1, Len(conversation_history))
             = conversation_history]_vars

\* C16 witness: the turn after one that raised was processed, a directory
\* change, with the history of the failed turn submitted to the gateway.
C16_Witness ==
  /\ turns = 2
  /\ running
  /\ last.preLen = 1
  /\ last.kind = "cd"
  /\ last.sent = <<Turn("system", DynamicSystemMessage(Home))>>
                   \o SubSeq(conversation_history, 1, 2)
  /\ current_working_directory # Home

\* C17: the conversation submitted in a turn is one system turn, the policy
\* text with the working directory the turn starts with, then the whole
\* history as it was in its order, then the user turn of this query; and
\* the history after the turn begins with the history before it.
C17_SubmittedConversation ==
  [][turns' = turns + 1
     => /\ \E user_query \in UserInputs :
             last'.sent = <<Turn("system",
                                 DynamicSystemMessage(current_working_directory))>>
                            \o conversation_history
                            \o <<Turn("user", Raw(user_query))>>
        /\ Len(conversation_history') > Len(conversation_history)
        /\ SubSeq(conversation_history', 1, Len(conversation_history))
             = conversation_history]_vars

\* C17 witness: a second turn submitted the two entries of the first and
\* its own query, with the working directory the first turn changed to.
C17_Witness ==
  /\ turns = 2
  /\ last.preLen = 2
  /\ last.preCwd # Home
  /\ Len(last.sent) = 4
  /\ last.sent[1] = Turn("system", DynamicSystemMessage(last.preCwd))
  /\ SubSeq(last.sent, 2, 3) = SubSeq(conversation_history, 1, 2)
  /\ last.sent[3].role = "assistant"

\* A word of the command after the first has .. as a path component.
HasParentComponent(command) ==
  \E i \in 2..Len(Words(command)) : Contains(Split(Words(command)[i], Slash), DotDot)

\* C18 as stated: a command whose first word is whitelisted and is no
\* navigation command, and which has an argument with a .. component in
\* any position, never gets to subprocess.run.
C18_NoEscapeInsideWhitelisted ==
  (/\ last.kind = "command"
   /\ Whitelisted(FirstWord(last.command), whitelisted_commands)
   /\ FirstWord(last.command) \notin NavigationCommands
   /\ HasParentComponent(last.command))
  => last.calls = <<>>

\* C19 as stated: the history holds user and assistant turns only, strictly
\* alternating from a user turn, and its length is twice the number of
\* calls of process_query.
C19_StrictAlternation ==
  /\ \A i \in 1..Len(conversation_history) :
       conversation_history[i].role = (IF i % 2 = 1 THEN "user" ELSE "assistant")
  /\ Len(conversation_history) = 2 * turns

\* C19 amended: the history holds user and assistant turns only, begins
\* with a user turn, has every assistant turn right after a user turn, has
\* one user turn per call of process_query, and is at most twice as long as
\* the number of calls.
C19_HistoryShape ==
  /\ \A i \in 1..Len(conversation_history) :
       /\ conversation_history[i].role \in {"user", "assistant"}
       /\ conversation_history[i].role = "assistant"
            => (i > 1 /\ conversation_history[i - 1].role = "user")
  /\ Cardinality({i \in 1..Len(conversation_history) :
                    conversation_history[i].role = "user"}) = turns
  /\ Len(conversation_history) <= 2 * turns

\* C19 witness: a turn that was answered, then a turn that raised and left
\* its user turn alone at the end of the history.
C19_Witness ==
  /\ turns = 2
  /\ last.kind = "raised"
  /\ Len(conversation_history) = 3
  /\ conversation_history[2].role = "assistant"
  /\ conversation_history[3] = Turn("user", Raw(Query))

\* C20: no step changes the whitelist, and a step changes the working
\* directory only as a turn whose response begins with the marker, whose
\* command text begins with "cd ", and whose path, resolved against the
\* working directory before, is an existing directory, the one the working
\* directory names afterwards.
C20_OnlyCdChangesDirectory ==
  [][/\ whitelisted_commands' = whitelisted_commands
     /\ current_working_directory' # current_working_directory
          => /\ turns' = turns + 1
             /\ StartsWith(last'.final, Marker)
             /\ StartsWith(Strip(Drop(last'.final, Len(Marker))), <<"c", "d", " ">>)
             /\ Resolved(current_working_directory,
                         Strip(Drop(Strip(Drop(last'.final, Len(Marker))), 3)))
                  \in dirs
             /\ Components(current_working_directory')
                  = Resolved(current_working_directory,
                             Strip(Drop(Strip(Drop(last'.final, Len(Marker))), 3)))]_vars

\* C20 witness: after a directory change, a bare cd was refused by the
\* whitelist and the working directory stayed where it was.
C20_Witness ==
  /\ turns = 2
  /\ last.preCwd # Home
  /\ last.command = <<"c", "d">>
  /\ last.gate = "whitelist"
  /\ current_working_directory = last.preCwd
  /\ whitelisted_commands = InitialWhitelist

====
